---- MODULE Spec2Model ----
(***************************************************************************)
(* Model of the aaa-service infrastructure app (src/infrastructure).       *)
(*                                                                         *)
(* app.py builds a construct tree of three stacks (IamStack, DatabaseStack,*)
(* ContainerStack) and synthesizes it into a cloud assembly.  The          *)
(* provisioning engine then deploys and destroys the synthesized stacks,   *)
(* and the image registry receives pushes and evaluates the declared       *)
(* lifecycle rules.                                                        *)
(***************************************************************************)
EXTENDS Integers, Sequences, FiniteSets, TLC

VARIABLES
    ctx,        \* the context store handed to the app (node.try_get_context)
    pc,         \* index of the next statement of app.py (see AppProgram)
    raised,     \* TRUE once a constructor raised and app.py terminated
    children,   \* app.node.children: the stacks constructed so far, in order
    tree,       \* construct tree: stack id -> (construct id -> declaration)
    assembly,   \* output of app.synth(): stack id -> (logical id -> resource)
    status,     \* provisioning engine: stack id -> "none"|"deployed"|"destroyed"
    live,       \* physical resources that exist, as [stack, id] records
    snapshots,  \* final snapshots taken on teardown, as [stack, id] records
    secret,     \* value of the generated credential secret once deployed
    images,     \* registry: repository id -> set of [seq, scanned] images
    pushed,     \* registry: repository id -> number of pushes so far
    evaluated   \* registry: repository id -> lifecycle evaluated since last push

vars == <<ctx, pc, raised, children, tree, assembly, status, live, snapshots,
          secret, images, pushed, evaluated>>

appVars   == <<ctx, pc, raised, children, tree, assembly>>
cloudVars == <<status, live, snapshots, secret>>
regVars   == <<images, pushed, evaluated>>

-----------------------------------------------------------------------------
(* Bounds of the model *)

\* length of the generated password (the service's real default is longer)
PwLen == 2
\* how many pushes beyond its retention cap a repository receives
MaxOver == 1

-----------------------------------------------------------------------------
(* Values *)

\* Python's None, as returned by try_get_context for a missing key
None == "<None>"

IamStackId       == "AaaServiceIamStack"
DatabaseStackId  == "AaaServiceDatabaseStack"
ContainerStackId == "AaaServiceContainerStack"
StackIds == {IamStackId, DatabaseStackId, ContainerStackId}

RoleArnKeys == {"database_access_role_arn", "monitoring_role_arn", "backup_role_arn"}
ContextKeys == RoleArnKeys \cup {"account"}

\* role identifiers an operator may put in the context store
RoleArns == {"arn:aws:iam::111111111111:role/A", "arn:aws:iam::111111111111:role/B"}
Accounts == {"111111111111"}

Contexts ==
    {c \in [ContextKeys -> RoleArns \cup Accounts \cup {None}] :
        /\ c["account"] \in Accounts \cup {None}
        /\ \A k \in RoleArnKeys : c[k] \in RoleArns \cup {None}}

\* characters the secret generator may draw from (a sample of printable ASCII
\* that includes every character the stack excludes)
PasswordAlphabet == {"a", "Z", "7", "!", "\"", "@", "/", "\\"}

EmptyMap == <<>>

-----------------------------------------------------------------------------
(* Object handles: what a construct's attribute refers to *)

\* a construct declared in scope `scope` (a direct object handle)
Owned(scope, id) == [kind |-> "owned", scope |-> scope, id |-> id, arn |-> None]

\* a construct imported into `scope` by identifier lookup
Imported(scope, id, arn) == [kind |-> "imported", scope |-> scope, id |-> id, arn |-> arn]

\* an attribute token of a construct (vpc.vpc_cidr_block, repo.repository_arn, ...)
Attr(handle, attr) == [of |-> handle, attr |-> attr, literal |-> None]

\* a literal value where an attribute token could stand
Literal(v) == [of |-> Owned(None, None), attr |-> None, literal |-> v]

\* a lookup that falls back to a default identifier for a missing key
TryGetContextOrDefault(c, key) ==
    IF c[key] = None THEN "arn:aws:iam::111111111111:role/A" ELSE c[key]

\* node.try_get_context(key): the value stored under key, None when missing
TryGetContext(c, key) == c[key]

-----------------------------------------------------------------------------
(* IamStack: the Access-Control Group *)

\* inline statement actions of the database access role, in declaration order
DbAccessPolicyActions ==
    <<"rds-db:connect", "rds:DescribeDBInstances", "rds:DescribeDBClusters",
      "rds:ModifyDBInstance", "rds:ModifyDBCluster", "rds:StartDBInstance",
      "rds:StopDBInstance", "rds:RebootDBInstance", "rds:CreateDBInstance",
      "rds:DeleteDBInstance", "rds:CreateDBCluster", "rds:DeleteDBCluster",
      "rds:RestoreDBInstanceFromDBSnapshot", "rds:RestoreDBClusterFromSnapshot",
      "rds:CreateDBSnapshot", "rds:DeleteDBSnapshot", "rds:CopyDBSnapshot",
      "rds:CopyDBClusterSnapshot", "rds:DescribeDBSnapshots",
      "rds:DescribeDBClusterSnapshots", "rds:ModifyDBSnapshotAttribute",
      "rds:ModifyDBClusterSnapshotAttribute", "rds:RestoreDBInstanceToPointInTime",
      "rds:RestoreDBClusterToPointInTime", "rds:DescribeDBEngineVersions",
      "rds:DescribeOrderableDBInstanceOptions", "rds:DescribeDBParameters",
      "rds:DescribeDBClusterParameters", "rds:ModifyDBParameterGroup",
      "rds:ModifyDBClusterParameterGroup", "rds:DescribeEvents",
      "rds:DescribeEventSubscriptions", "rds:CreateEventSubscription",
      "rds:DeleteEventSubscription", "rds:ModifyEventSubscription",
      "rds:AddTagsToResource", "rds:RemoveTagsFromResource", "rds:ListTagsForResource",
      "rds:DescribeDBLogFiles", "rds:DownloadDBLogFilePortion",
      "rds:DescribeDBInstances", "rds:DescribeDBClusters",
      "rds:DescribeDBEngineVersions", "rds:DescribeDBParameterGroups",
      "rds:DescribeDBClusterParameterGroups", "rds:DescribeDBParameters",
      "rds:DescribeDBClusterParameters", "rds:DescribeOptionGroups",
      "rds:DescribeDBSubnetGroups", "rds:DescribeEventSubscriptions",
      "rds:DescribeEvents", "rds:DescribeOrderableDBInstanceOptions",
      "rds:DescribePendingMaintenanceActions", "rds:DescribeReservedDBInstances",
      "rds:DescribeReservedDBInstancesOfferings", "rds:DescribeSourceRegions",
      "rds:DescribeValidDBInstanceModifications",
      "rds:DescribeValidDBClusterModifications",
      "rds:DescribeDBClusterSnapshotAttributes", "rds:DescribeDBSnapshotAttributes",
      "rds:DescribeDBClusterEndpoints", "rds:DescribeDBClusterParameterGroups",
      "rds:DescribeDBClusterParameters", "rds:DescribeDBClusterSnapshots",
      "rds:DescribeDBClusters", "rds:DescribeDBInstances",
      "rds:DescribeDBParameterGroups", "rds:DescribeDBParameters",
      "rds:DescribeDBSnapshots", "rds:DescribeDBSubnetGroups",
      "rds:DescribeEventCategories", "rds:DescribeEventSubscriptions",
      "rds:DescribeEvents", "rds:DescribeOptionGroups",
      "rds:DescribeOrderableDBInstanceOptions", "rds:DescribePendingMaintenanceActions",
      "rds:DescribeReservedDBInstances", "rds:DescribeReservedDBInstancesOfferings",
      "rds:DescribeSourceRegions", "rds:DescribeValidDBInstanceModifications",
      "rds:DescribeValidDBClusterModifications", "rds:ListTagsForResource",
      "rds:ModifyDBCluster", "rds:ModifyDBClusterParameterGroup",
      "rds:ModifyDBClusterSnapshotAttribute", "rds:ModifyDBInstance",
      "rds:ModifyDBParameterGroup", "rds:ModifyDBSnapshotAttribute",
      "rds:ModifyEventSubscription", "rds:PromoteReadReplica",
      "rds:PromoteReadReplicaDBCluster", "rds:PurchaseReservedDBInstancesOffering",
      "rds:RebootDBInstance", "rds:RemoveTagsFromResource",
      "rds:ResetDBClusterParameterGroup", "rds:ResetDBParameterGroup",
      "rds:RestoreDBClusterFromSnapshot", "rds:RestoreDBClusterToPointInTime",
      "rds:RestoreDBInstanceFromDBSnapshot", "rds:RestoreDBInstanceToPointInTime",
      "rds:RevokeDBSecurityGroupIngress", "rds:StartDBCluster", "rds:StartDBInstance",
      "rds:StopDBCluster", "rds:StopDBInstance">>

DatabaseAccessRole ==
    [type |-> "Role",
     assumed_by |-> "rds.amazonaws.com",
     managed_policies |-> <<"service-role/AmazonRDSEnhancedMonitoringRole",
                            "service-role/AmazonRDSDirectoryServiceAccess">>,
     policy |-> <<[effect |-> "ALLOW",
                   actions |-> DbAccessPolicyActions,
                   resources |-> <<Literal("*")>>]>>]

DatabaseMonitoringRole ==
    [type |-> "Role",
     assumed_by |-> "monitoring.rds.amazonaws.com",
     managed_policies |-> <<"service-role/AmazonRDSEnhancedMonitoringRole">>,
     policy |-> <<>>]

DatabaseBackupRole ==
    [type |-> "Role",
     assumed_by |-> "backup.amazonaws.com",
     managed_policies |-> <<"service-role/AWSBackupServiceRolePolicyForBackup">>,
     policy |-> <<>>]

CfnOutput(value) == [type |-> "CfnOutput", value |-> value]

\* IamStack.__init__: the constructs it adds to its scope
IamStackInit(scope) ==
    ("DatabaseAccessRole" :> DatabaseAccessRole)
    @@ ("DatabaseMonitoringRole" :> DatabaseMonitoringRole)
    @@ ("DatabaseBackupRole" :> DatabaseBackupRole)
    @@ ("DatabaseAccessRoleARN" :>
            CfnOutput(Attr(Owned(scope, "DatabaseAccessRole"), "Arn")))
    @@ ("DatabaseMonitoringRoleARN" :>
            CfnOutput(Attr(Owned(scope, "DatabaseMonitoringRole"), "Arn")))
    @@ ("DatabaseBackupRoleARN" :>
            CfnOutput(Attr(Owned(scope, "DatabaseBackupRole"), "Arn")))

-----------------------------------------------------------------------------
(* DatabaseStack: the Data-Tier Group *)

DatabaseVPC ==
    [type |-> "Vpc",
     max_azs |-> 2,
     nat_gateways |-> 1,
     subnet_configuration |->
        <<[name |-> "Public", subnet_type |-> "PUBLIC", cidr_mask |-> 24],
          [name |-> "Private", subnet_type |-> "PRIVATE_WITH_EGRESS", cidr_mask |-> 24]>>]

\* ec2.Peer.ipv4(cidr) and ec2.Peer.any_ipv4()
PeerIpv4(cidr) == [family |-> "ipv4", cidr |-> cidr]
PeerAnyIpv4 == PeerIpv4(Literal("0.0.0.0/0"))

\* ec2.Port.tcp(port)
PortTcp(port) == [protocol |-> "tcp", from_port |-> port, to_port |-> port]

\* a rule open to every address (the mistake the stack avoids)
DatabaseIngressRuleOpen(vpc) ==
    [peer |-> PeerAnyIpv4,
     connection |-> PortTcp(5432),
     description |-> "Allow PostgreSQL traffic from VPC"]

\* the rule passed to db_security_group.add_ingress_rule
DatabaseIngressRule(vpc) ==
    [peer |-> PeerIpv4(Attr(vpc, "CidrBlock")),
     connection |-> PortTcp(5432),
     description |-> "Allow PostgreSQL traffic from VPC"]

\* ec2.SecurityGroup(...) followed by add_ingress_rule(...)
DatabaseSecurityGroup(vpc) ==
    [type |-> "SecurityGroup",
     vpc |-> vpc,
     allow_all_outbound |-> TRUE,
     ingress |-> <<DatabaseIngressRule(vpc)>>]

\* a generator that forgets the slash
DatabaseCredentialsNoSlash ==
    [type |-> "Secret",
     secret_string_template |-> "{\"username\": \"aaa_user\"}",
     generate_string_key |-> "password",
     exclude_characters |-> <<"\"", "@", "\\">>]

\* secretsmanager.Secret with its SecretStringGenerator;
\* the Python literal '"@/\\' is the four characters " @ / \
DatabaseCredentials ==
    [type |-> "Secret",
     secret_string_template |-> "{\"username\": \"aaa_user\"}",
     generate_string_key |-> "password",
     exclude_characters |-> <<"\"", "@", "/", "\\">>]

\* a lookup that lets a missing identifier through
FromRoleArnUnchecked(scope, id, role_arn) ==
    [ok |-> TRUE, role |-> Imported(scope, id, role_arn)]

\* iam.Role.from_role_arn: role_arn is a required string, None is rejected
FromRoleArn(scope, id, role_arn) ==
    IF role_arn = None
    THEN [ok |-> FALSE, role |-> Imported(scope, id, None)]
    ELSE [ok |-> TRUE, role |-> Imported(scope, id, role_arn)]

ImportedRole(handle) == [type |-> "ImportedRole", role_arn |-> handle.arn]

\* a teardown that deletes the cluster outright
ClusterRemovalPolicyDestroy == "DESTROY"

ClusterRemovalPolicy == "SNAPSHOT"

\* the access role slot filled with the wrong role object
ClusterAssociatedRolesMixedUp(db_access_role, monitoring_role, backup_role) ==
    <<db_access_role, monitoring_role>>

ClusterAssociatedRoles(db_access_role, monitoring_role, backup_role) ==
    <<db_access_role, backup_role>>

\* rds.DatabaseCluster(...)
DatabaseCluster(vpc, sg, credentials, db_access_role, monitoring_role, backup_role) ==
    [type |-> "DatabaseCluster",
     engine |-> "aurora-postgresql",
     version |-> "16.1",
     credentials |-> credentials,
     vpc |-> vpc,
     vpc_subnets |-> "PRIVATE_WITH_EGRESS",
     security_groups |-> <<sg>>,
     instance_type |-> "t3.medium",
     monitoring_role |-> monitoring_role,
     instances |-> 1,
     backup |-> [retention_days |-> 7, preferred_window |-> "03:00-04:00"],
     monitoring_interval |-> 60,
     parameter_group_name |-> "default.aurora-postgresql16",
     removal_policy |-> ClusterRemovalPolicy,
     associated_roles |->
        ClusterAssociatedRoles(db_access_role, monitoring_role, backup_role)]

\* DatabaseStack.__init__: the constructs it adds to its scope, statement by
\* statement; ok is FALSE when a statement raised, and nodes then holds what
\* had been declared before it
DatabaseStackInit(scope, c) ==
    LET vpc  == Owned(scope, "DatabaseVPC")
        sg   == Owned(scope, "DatabaseSecurityGroup")
        cred == Owned(scope, "DatabaseCredentials")
        n0   == ("DatabaseVPC" :> DatabaseVPC)
                @@ ("DatabaseSecurityGroup" :> DatabaseSecurityGroup(vpc))
                @@ ("DatabaseCredentials" :> DatabaseCredentials)
        r1   == FromRoleArn(scope, "ImportedDatabaseAccessRole",
                            TryGetContext(c, "database_access_role_arn"))
        n1   == n0 @@ ("ImportedDatabaseAccessRole" :> ImportedRole(r1.role))
        r2   == FromRoleArn(scope, "ImportedMonitoringRole",
                            TryGetContext(c, "monitoring_role_arn"))
        n2   == n1 @@ ("ImportedMonitoringRole" :> ImportedRole(r2.role))
        r3   == FromRoleArn(scope, "ImportedBackupRole",
                            TryGetContext(c, "backup_role_arn"))
        n3   == n2 @@ ("ImportedBackupRole" :> ImportedRole(r3.role))
        n4   == n3
                @@ ("DatabaseCluster" :>
                        DatabaseCluster(vpc, sg, cred, r1.role, r2.role, r3.role))
                @@ ("ClusterEndpoint" :>
                        CfnOutput(Attr(Owned(scope, "DatabaseCluster"),
                                       "Endpoint.Address")))
                @@ ("SecretARN" :> CfnOutput(Attr(cred, "Arn")))
    IN  IF ~r1.ok THEN [ok |-> FALSE, nodes |-> n0]
        ELSE IF ~r2.ok THEN [ok |-> FALSE, nodes |-> n1]
        ELSE IF ~r3.ok THEN [ok |-> FALSE, nodes |-> n2]
        ELSE [ok |-> TRUE, nodes |-> n4]

-----------------------------------------------------------------------------
(* ContainerStack: the Container-Registry Group *)

LifecycleRule(max_image_count) ==
    [count_type |-> "imageCountMoreThan", max_image_count |-> max_image_count]

\* a repository deleted together with its stack
RepositoryRemovalPolicyDestroy == "DESTROY"

RepositoryRemovalPolicy == "RETAIN"

Repository(name, max_image_count) ==
    [type |-> "Repository",
     repository_name |-> name,
     removal_policy |-> RepositoryRemovalPolicy,
     image_scan_on_push |-> TRUE,
     lifecycle_rules |-> <<LifecycleRule(max_image_count)>>]

AaaServiceRepository == Repository("aaa-service", 30)

\* a repository that keeps more images than intended
SpiceDBRepositoryKeepsMore == Repository("spicedb", 100)

SpiceDBRepository == Repository("spicedb", 10)

AadhaarValidationRepository == Repository("aadhaar-validation-service", 30)

RepositoryIds ==
    {"AaaServiceRepository", "SpiceDBRepository", "AadhaarValidationRepository"}

\* a statement widened to every resource
EcrPullStatementWildcard(aaa_service_repo, spicedb_repo, aadhaar_validation_repo) ==
    [effect |-> "ALLOW",
     actions |-> <<"ecr:GetDownloadUrlForLayer", "ecr:BatchGetImage",
                   "ecr:BatchCheckLayerAvailability", "ecr:GetAuthorizationToken">>,
     resources |-> <<Literal("*")>>]

\* the iam.PolicyStatement passed to ecr_access_role.add_to_policy
EcrPullStatement(aaa_service_repo, spicedb_repo, aadhaar_validation_repo) ==
    [effect |-> "ALLOW",
     actions |-> <<"ecr:GetDownloadUrlForLayer", "ecr:BatchGetImage",
                   "ecr:BatchCheckLayerAvailability", "ecr:GetAuthorizationToken">>,
     resources |-> <<Attr(aaa_service_repo, "Arn"),
                     Attr(spicedb_repo, "Arn"),
                     Attr(aadhaar_validation_repo, "Arn")>>]

\* iam.Role(...) followed by add_to_policy(...)
EcrAccessRole(aaa_service_repo, spicedb_repo, aadhaar_validation_repo) ==
    [type |-> "Role",
     assumed_by |-> "ecs-tasks.amazonaws.com",
     managed_policies |-> <<>>,
     policy |-> <<EcrPullStatement(aaa_service_repo, spicedb_repo,
                                   aadhaar_validation_repo)>>]

\* ContainerStack.__init__: the constructs it adds to its scope
ContainerStackInit(scope) ==
    LET aaa     == Owned(scope, "AaaServiceRepository")
        spice   == Owned(scope, "SpiceDBRepository")
        aadhaar == Owned(scope, "AadhaarValidationRepository")
    IN  ("AaaServiceRepository" :> AaaServiceRepository)
        @@ ("SpiceDBRepository" :> SpiceDBRepository)
        @@ ("AadhaarValidationRepository" :> AadhaarValidationRepository)
        @@ ("EcrAccessRole" :> EcrAccessRole(aaa, spice, aadhaar))
        @@ ("AaaServiceRepositoryURI" :> CfnOutput(Attr(aaa, "RepositoryUri")))
        @@ ("SpiceDBRepositoryURI" :> CfnOutput(Attr(spice, "RepositoryUri")))
        @@ ("AadhaarValidationRepositoryURI" :>
                CfnOutput(Attr(aadhaar, "RepositoryUri")))

-----------------------------------------------------------------------------
(* app.py *)

\* app.py with the data tier constructed before the access-control group
AppProgramDatabaseFirst == <<"DatabaseStack", "IamStack", "ContainerStack", "synth">>

\* the statements of app.py after app = App(), in program order
AppProgram == <<"IamStack", "DatabaseStack", "ContainerStack", "synth">>

Statement ==
    IF ~raised /\ pc \in 1..Len(AppProgram) THEN AppProgram[pc] ELSE "exit"

\* the stacks of a construct tree that reach the cloud assembly: every
\* declared resource and output, imported constructs left out (they are
\* rendered as the identifier they were looked up by)
Template(nodes) ==
    [id \in {i \in DOMAIN nodes : nodes[i].type # "ImportedRole"} |-> nodes[id]]

Range(f) == {f[x] : x \in DOMAIN f}

\* app.synth()
SynthApp(stacks, t) == [s \in Range(stacks) |-> Template(t[s])]

NoSecret == [template |-> None, key |-> None, value |-> <<>>]

Init ==
    /\ ctx \in Contexts
    /\ pc = 1
    /\ raised = FALSE
    /\ children = <<>>
    /\ tree = [s \in StackIds |-> EmptyMap]
    /\ assembly = EmptyMap
    /\ status = [s \in StackIds |-> "none"]
    /\ live = {}
    /\ snapshots = {}
    /\ secret = NoSecret
    /\ images = [r \in RepositoryIds |-> {}]
    /\ pushed = [r \in RepositoryIds |-> 0]
    /\ evaluated = [r \in RepositoryIds |-> TRUE]

\* iam_stack = IamStack(app, "AaaServiceIamStack", env=...)
ConstructIamStack ==
    /\ Statement = "IamStack"
    /\ children' = Append(children, IamStackId)
    /\ tree' = [tree EXCEPT ![IamStackId] = IamStackInit(IamStackId)]
    /\ pc' = pc + 1
    /\ UNCHANGED <<ctx, raised, assembly, cloudVars, regVars>>

\* DatabaseStack(app, "AaaServiceDatabaseStack", env=...); an exception raised
\* by the constructor is not caught and ends the program
ConstructDatabaseStack ==
    /\ Statement = "DatabaseStack"
    /\ LET r == DatabaseStackInit(DatabaseStackId, ctx)
       IN  /\ children' = Append(children, DatabaseStackId)
           /\ tree' = [tree EXCEPT ![DatabaseStackId] = r.nodes]
           /\ raised' = ~r.ok
           /\ pc' = IF r.ok THEN pc + 1 ELSE pc
    /\ UNCHANGED <<ctx, assembly, cloudVars, regVars>>

\* ContainerStack(app, "AaaServiceContainerStack", env=...)
ConstructContainerStack ==
    /\ Statement = "ContainerStack"
    /\ children' = Append(children, ContainerStackId)
    /\ tree' = [tree EXCEPT ![ContainerStackId] = ContainerStackInit(ContainerStackId)]
    /\ pc' = pc + 1
    /\ UNCHANGED <<ctx, raised, assembly, cloudVars, regVars>>

\* app.synth()
Synth ==
    /\ Statement = "synth"
    /\ assembly' = SynthApp(children, tree)
    /\ pc' = pc + 1
    /\ UNCHANGED <<ctx, raised, children, tree, cloudVars, regVars>>

-----------------------------------------------------------------------------
(* The provisioning engine acting on the synthesized assembly *)

\* the removal policy a resource was declared with; the engine deletes a
\* resource that declares none
RemovalPolicyOf(res) ==
    IF "removal_policy" \in DOMAIN res THEN res.removal_policy ELSE "DESTROY"

Physical(s, template) ==
    {[stack |-> s, id |-> i] : i \in {j \in DOMAIN template : template[j].type # "CfnOutput"}}

\* the secret strings the generator can produce for a declared secret
GenerateSecretString(decl) ==
    {[template |-> decl.secret_string_template,
      key |-> decl.generate_string_key,
      value |-> pw] :
        pw \in [1..PwLen -> PasswordAlphabet \ Range(decl.exclude_characters)]}

SecretIds(template) == {i \in DOMAIN template : template[i].type = "Secret"}

\* the engine creates every resource of a synthesized stack
Deploy(s) ==
    /\ s \in DOMAIN assembly
    /\ status[s] = "none"
    /\ status' = [status EXCEPT ![s] = "deployed"]
    /\ live' = live \cup Physical(s, assembly[s])
    /\ IF SecretIds(assembly[s]) = {}
       THEN secret' = secret
       ELSE \E i \in SecretIds(assembly[s]) :
                secret' \in GenerateSecretString(assembly[s][i])
    /\ UNCHANGED <<appVars, snapshots, regVars>>

\* the engine tears a deployed stack down, resource by resource, according to
\* each resource's removal policy
Destroy(s) ==
    /\ s \in DOMAIN assembly
    /\ status[s] = "deployed"
    /\ status' = [status EXCEPT ![s] = "destroyed"]
    /\ LET mine    == {p \in live : p.stack = s}
           kept    == {p \in mine : RemovalPolicyOf(assembly[s][p.id]) = "RETAIN"}
           snapped == {p \in mine : RemovalPolicyOf(assembly[s][p.id]) = "SNAPSHOT"}
       IN  /\ live' = (live \ mine) \cup kept
           /\ snapshots' = snapshots \cup snapped
           /\ secret' = IF \E p \in mine \ kept : assembly[s][p.id].type = "Secret"
                        THEN NoSecret ELSE secret
    /\ UNCHANGED <<appVars, regVars>>

Next ==
    \/ ConstructIamStack
    \/ ConstructDatabaseStack
    \/ ConstructContainerStack
    \/ Synth
    \/ \E s \in StackIds : Deploy(s)
    \/ \E s \in StackIds : Destroy(s)

Spec == Init /\ [][Next]_vars

-----------------------------------------------------------------------------
(* The image registry once the Container-Registry Group is deployed *)

\* the declaration a deployed repository was created from
RepositoryDecl(r) == assembly[ContainerStackId][r]

RetentionCap(r) == RepositoryDecl(r).lifecycle_rules[1].max_image_count

RepositoryExists(r) == [stack |-> ContainerStackId, id |-> r] \in live

\* an image is pushed to a repository; it is scanned when the repository was
\* declared with scan-on-push
Push(r) ==
    /\ RepositoryExists(r)
    /\ pushed[r] < RetentionCap(r) + MaxOver
    /\ pushed' = [pushed EXCEPT ![r] = @ + 1]
    /\ images' = [images EXCEPT ![r] =
                    @ \cup {[seq |-> pushed[r] + 1,
                             scanned |-> RepositoryDecl(r).image_scan_on_push]}]
    /\ evaluated' = [evaluated EXCEPT ![r] = FALSE]
    /\ UNCHANGED <<appVars, cloudVars>>

\* the images an imageCountMoreThan rule expires: all but the newest
\* max_image_count
Expired(imgs, rule) ==
    {i \in imgs : Cardinality({j \in imgs : j.seq > i.seq}) >= rule.max_image_count}

\* the registry evaluates a repository's lifecycle rules
LifecycleEvaluate(r) ==
    /\ RepositoryExists(r)
    /\ ~evaluated[r]
    /\ images' = [images EXCEPT ![r] =
                    @ \ Expired(@, RepositoryDecl(r).lifecycle_rules[1])]
    /\ evaluated' = [evaluated EXCEPT ![r] = TRUE]
    /\ UNCHANGED <<appVars, cloudVars, pushed>>

\* a context that supplies every identifier
FullContext ==
    [k \in ContextKeys |->
        IF k = "account" THEN "111111111111" ELSE "arn:aws:iam::111111111111:role/A"]

\* the state after app.py ran to completion under FullContext and the engine
\* deployed the Container-Registry Group
RegistryInit ==
    /\ ctx = FullContext
    /\ pc = Len(AppProgram) + 1
    /\ raised = FALSE
    /\ children = <<IamStackId, DatabaseStackId, ContainerStackId>>
    /\ tree = [s \in StackIds |->
                 IF s = IamStackId THEN IamStackInit(s)
                 ELSE IF s = DatabaseStackId THEN DatabaseStackInit(s, ctx).nodes
                 ELSE ContainerStackInit(s)]
    /\ assembly = SynthApp(children, tree)
    /\ status = [s \in StackIds |-> IF s = ContainerStackId THEN "deployed" ELSE "none"]
    /\ live = Physical(ContainerStackId, assembly[ContainerStackId])
    /\ snapshots = {}
    /\ secret = NoSecret
    /\ images = [r \in RepositoryIds |-> {}]
    /\ pushed = [r \in RepositoryIds |-> 0]
    /\ evaluated = [r \in RepositoryIds |-> TRUE]

RegistryNext ==
    \/ \E r \in RepositoryIds : Push(r)
    \/ \E r \in RepositoryIds : LifecycleEvaluate(r)

RegistrySpec == RegistryInit /\ [][RegistryNext]_vars

-----------------------------------------------------------------------------
(* Properties *)

DbNodes == tree[DatabaseStackId]
RegistryNodes == tree[ContainerStackId]

NodesOfType(nodes, type) == {i \in DOMAIN nodes : nodes[i].type = type}

IndexOf(seq, x) == CHOOSE i \in 1..Len(seq) : seq[i] = x

\* the context key each imported role is looked up by
ImportKey ==
    ("ImportedDatabaseAccessRole" :> "database_access_role_arn")
    @@ ("ImportedMonitoringRole" :> "monitoring_role_arn")
    @@ ("ImportedBackupRole" :> "backup_role_arn")

AllRolesSupplied == \A k \in RoleArnKeys : ctx[k] # None

IamRolesDeclared ==
    {"DatabaseAccessRole", "DatabaseMonitoringRole", "DatabaseBackupRole"}
        \subseteq NodesOfType(tree[IamStackId], "Role")

DataTierTypes == {"Vpc", "SecurityGroup", "Secret", "DatabaseCluster"}

\* C2: when one of the three role identifiers is absent from context, the
\* DatabaseStack constructor raises at the lookup: the cluster is never
\* declared, app.py never reaches synth, and no resource of the Data-Tier
\* Group (nor any other resource) is ever deployed.
C2_MissingRoleFailsBeforeDeployment ==
    ~AllRolesSupplied =>
        /\ DatabaseStackId \in Range(children) => raised
        /\ NodesOfType(DbNodes, "DatabaseCluster") = {}
        /\ assembly = EmptyMap
        /\ status[DatabaseStackId] = "none"
        /\ live = {}
        /\ snapshots = {}
        /\ secret = NoSecret

C2_Witness ==
    /\ ~AllRolesSupplied
    /\ raised
    /\ {"DatabaseVPC", "DatabaseSecurityGroup", "DatabaseCredentials"} \subseteq DOMAIN DbNodes

\* the rule a security group must carry: one inbound rule, TCP 5432, from the
\* address block of the group's own VPC, which is a VPC of the same stack
RestrictedToOwnVpc(nodes, sg) ==
    /\ Len(sg.ingress) = 1
    /\ sg.vpc.kind = "owned"
    /\ sg.vpc.scope = DatabaseStackId
    /\ sg.vpc.id \in NodesOfType(nodes, "Vpc")
    /\ sg.ingress[1].peer = PeerIpv4(Attr(sg.vpc, "CidrBlock"))
    /\ sg.ingress[1].connection = PortTcp(5432)
    /\ sg.ingress[1].peer.cidr.literal # "0.0.0.0/0"

\* C3: the database security group, as declared and as synthesized, has
\* exactly one inbound rule; its source is the address block of the VPC
\* declared in the same stack, on TCP port 5432, and never 0.0.0.0/0.
C3_IngressOnlyFromOwnVpc ==
    /\ \A id \in NodesOfType(DbNodes, "SecurityGroup") :
          RestrictedToOwnVpc(DbNodes, DbNodes[id])
    /\ DatabaseStackId \in DOMAIN assembly =>
          /\ NodesOfType(assembly[DatabaseStackId], "SecurityGroup")
                = {"DatabaseSecurityGroup"}
          /\ RestrictedToOwnVpc(assembly[DatabaseStackId],
                                assembly[DatabaseStackId]["DatabaseSecurityGroup"])
    /\ \A id \in NodesOfType(DbNodes, "DatabaseCluster") :
          DbNodes[id].security_groups = <<Owned(DatabaseStackId, "DatabaseSecurityGroup")>>

C3_Witness ==
    /\ [stack |-> DatabaseStackId, id |-> "DatabaseSecurityGroup"] \in live
    /\ [stack |-> DatabaseStackId, id |-> "DatabaseVPC"] \in live

ClusterResource == [stack |-> DatabaseStackId, id |-> "DatabaseCluster"]

\* C4: the cluster is declared with removal policy SNAPSHOT, and once the
\* Data-Tier Group has been deployed and destroyed the cluster is gone and
\* a final snapshot of it exists.
C4_DestroyLeavesSnapshot ==
    /\ \A id \in NodesOfType(DbNodes, "DatabaseCluster") :
          DbNodes[id].removal_policy = "SNAPSHOT"
    /\ status[DatabaseStackId] = "deployed" => ClusterResource \in live
    /\ status[DatabaseStackId] = "destroyed" =>
          /\ ClusterResource \in snapshots
          /\ ClusterResource \notin live

C4_Witness ==
    /\ status[DatabaseStackId] = "destroyed"
    /\ ClusterResource \in snapshots

\* the registry's read-only actions (those of the provider's read-only policy)
EcrReadOnlyActions ==
    {"ecr:GetAuthorizationToken", "ecr:BatchCheckLayerAvailability",
     "ecr:GetDownloadUrlForLayer", "ecr:GetRepositoryPolicy",
     "ecr:DescribeRepositories", "ecr:ListImages", "ecr:DescribeImages",
     "ecr:BatchGetImage", "ecr:GetLifecyclePolicy",
     "ecr:GetLifecyclePolicyPreview", "ecr:ListTagsForResource",
     "ecr:DescribeImageScanFindings"}

\* C5: the pull role is trusted by the container-execution service, its
\* only grant allows read-only pull actions, and the grant's resource list
\* has exactly 3 entries: the identifiers of the three repositories declared
\* in the same stack, none of them a wildcard.
C5_PullRoleScopedToRepositories ==
    \A id \in NodesOfType(RegistryNodes, "Role") :
        LET role == RegistryNodes[id]
            repos == NodesOfType(RegistryNodes, "Repository")
        IN  /\ role.assumed_by = "ecs-tasks.amazonaws.com"
            /\ role.managed_policies = <<>>
            /\ Len(role.policy) = 1
            /\ role.policy[1].effect = "ALLOW"
            /\ Range(role.policy[1].actions) \subseteq EcrReadOnlyActions
            /\ Len(role.policy[1].resources) = 3
            /\ Cardinality(repos) = 3
            /\ Range(role.policy[1].resources)
                  = {Attr(Owned(ContainerStackId, r), "Arn") : r \in repos}
            /\ \A i \in 1..Len(role.policy[1].resources) :
                  role.policy[1].resources[i].literal # "*"

C5_Witness ==
    /\ [stack |-> ContainerStackId, id |-> "EcrAccessRole"] \in live
    /\ \A r \in RepositoryIds : RepositoryExists(r)

DeclaredCap ==
    ("AaaServiceRepository" :> 30)
    @@ ("SpiceDBRepository" :> 10)
    @@ ("AadhaarValidationRepository" :> 30)

Newest(n, cap) == {k \in 1..n : k > n - cap}

\* C6: each repository scans on push and has a retention cap > 0 (30, 10
\* and 30); every image it holds was scanned, and after a lifecycle
\* evaluation following any sequence of pushes it holds at most its cap of
\* images, namely the most recently pushed ones.
C6_RetentionKeepsNewest ==
    \A r \in RepositoryIds :
        /\ RepositoryDecl(r).image_scan_on_push
        /\ Len(RepositoryDecl(r).lifecycle_rules) = 1
        /\ RetentionCap(r) > 0
        /\ RetentionCap(r) = DeclaredCap[r]
        /\ \A i \in images[r] : i.scanned
        /\ evaluated[r] =>
              /\ Cardinality(images[r]) <= RetentionCap(r)
              /\ {i.seq : i \in images[r]} = Newest(pushed[r], RetentionCap(r))

C6_Witness ==
    \E r \in RepositoryIds :
        /\ pushed[r] > RetentionCap(r)
        /\ evaluated[r]
        /\ Cardinality(images[r]) = RetentionCap(r)

\* the characters that break a connection string
ConnectionStringBreaking == {"\"", "@", "/"}

\* C7: the credential secret's template is exactly {"username": "aaa_user"},
\* its one generated field is "password", its excluded characters include
\* the three connection-string-breaking characters, and a generated
\* password contains none of them.
C7_SecretExcludesBreakingCharacters ==
    /\ \A id \in NodesOfType(DbNodes, "Secret") :
          /\ DbNodes[id].secret_string_template = "{\"username\": \"aaa_user\"}"
          /\ DbNodes[id].generate_string_key = "password"
          /\ ConnectionStringBreaking \subseteq Range(DbNodes[id].exclude_characters)
    /\ secret # NoSecret =>
          /\ secret.template = "{\"username\": \"aaa_user\"}"
          /\ secret.key = "password"
          /\ Len(secret.value) > 0
          /\ Range(secret.value) \cap ConnectionStringBreaking = {}

C7_Witness ==
    /\ secret # NoSecret
    /\ [stack |-> DatabaseStackId, id |-> "DatabaseCredentials"] \in live

\* the handles a declaration refers to
TokenHandles(tokens) == {t.of : t \in {u \in tokens : u.literal = None}}

Refs(res) ==
    IF res.type = "SecurityGroup"
      THEN {res.vpc} \cup TokenHandles({res.ingress[i].peer.cidr : i \in 1..Len(res.ingress)})
    ELSE IF res.type = "DatabaseCluster"
      THEN {res.vpc, res.credentials, res.monitoring_role}
           \cup Range(res.security_groups) \cup Range(res.associated_roles)
    ELSE IF res.type = "Role"
      THEN UNION {TokenHandles(Range(res.policy[i].resources)) : i \in 1..Len(res.policy)}
    ELSE IF res.type = "CfnOutput"
      THEN TokenHandles({res.value})
    ELSE {}

Resolves(s, template, h) ==
    \/ /\ h.kind = "owned"
       /\ h.scope = s
       /\ h.id \in DOMAIN template
       /\ template[h.id].type # "CfnOutput"
    \/ /\ h.kind = "imported"
       /\ h.arn # None
       /\ \E k \in RoleArnKeys : ctx[k] = h.arn

Consistent(asm) ==
    \A s \in DOMAIN asm : \A id \in DOMAIN asm[s] : \A h \in Refs(asm[s][id]) :
        Resolves(s, asm[s], h)

\* C8: the synthesized assembly is internally consistent: every reference
\* of a declared resource or output resolves to a resource declared in the
\* same stack or to an identifier supplied through context; and the step
\* that synthesizes it changes nothing in the cloud.
C8_SynthesisConsistentAndDry ==
    /\ [](Consistent(assembly))
    /\ [][(assembly = EmptyMap /\ assembly' # EmptyMap) =>
            /\ status' = status
            /\ live' = live
            /\ snapshots' = snapshots
            /\ secret' = secret
            /\ live' = {}
            /\ DOMAIN assembly' = StackIds]_vars

C8_Witness ==
    /\ DOMAIN assembly = StackIds
    /\ "DatabaseCluster" \in DOMAIN assembly[DatabaseStackId]
    /\ "EcrAccessRole" \in DOMAIN assembly[ContainerStackId]
    /\ live = {}

\* C9: the cluster's associated roles are exactly the access role and the
\* backup role looked up from context, the monitoring role looked up from
\* context is attached only as monitoring role, and all three are imports
\* into the DatabaseStack, none a role object of the IamStack.
C9_ClusterUsesImportedRoles ==
    \A id \in NodesOfType(DbNodes, "DatabaseCluster") :
        LET cluster == DbNodes[id]
            access  == Imported(DatabaseStackId, "ImportedDatabaseAccessRole",
                                ctx["database_access_role_arn"])
            monitor == Imported(DatabaseStackId, "ImportedMonitoringRole",
                                ctx["monitoring_role_arn"])
            backup  == Imported(DatabaseStackId, "ImportedBackupRole",
                                ctx["backup_role_arn"])
            used    == Range(cluster.associated_roles) \cup {cluster.monitoring_role}
        IN  /\ cluster.associated_roles = <<access, backup>>
            /\ cluster.monitoring_role = monitor
            /\ monitor \notin Range(cluster.associated_roles)
            /\ \A h \in used :
                  /\ h.kind = "imported"
                  /\ h.scope = DatabaseStackId
                  /\ h.arn # None
            /\ {h.id : h \in used} = NodesOfType(DbNodes, "ImportedRole")

C9_Witness ==
    /\ ClusterResource \in live
    /\ ctx["database_access_role_arn"] # ctx["monitoring_role_arn"]
    /\ ctx["backup_role_arn"] # ctx["monitoring_role_arn"]

\* C10: the three repositories are declared with removal policy RETAIN, and
\* once the Container-Registry Group has been deployed and destroyed the
\* three repositories still exist while the pull role does not.
C10_RepositoriesSurviveDestroy ==
    /\ \A id \in NodesOfType(RegistryNodes, "Repository") :
          RegistryNodes[id].removal_policy = "RETAIN"
    /\ ContainerStackId \in Range(children) =>
          /\ NodesOfType(RegistryNodes, "Repository") = RepositoryIds
          /\ {RegistryNodes[r].repository_name : r \in RepositoryIds}
                = {"aaa-service", "spicedb", "aadhaar-validation-service"}
    /\ status[ContainerStackId] = "destroyed" =>
          /\ \A r \in RepositoryIds : RepositoryExists(r)
          /\ [stack |-> ContainerStackId, id |-> "EcrAccessRole"] \notin live

C10_Witness ==
    /\ status[ContainerStackId] = "destroyed"
    /\ \A r \in RepositoryIds : RepositoryExists(r)


====
